---- MODULE Spec2Model ----
(***************************************************************************)
(* Model of OpenAIAgent (src/src/agents/openai/OpenAIAgent.ts): the        *)
(* per-channel agent session that binds a chat channel to an OpenAI        *)
(* assistant thread.  JavaScript is single threaded: every action below is *)
(* one run-to-completion segment of init, dispose or handleMessage, from   *)
(* one suspension point (await) to the next, and the segments of different *)
(* calls interleave freely.  Calls of the same method are interchangeable, *)
(* so the calls of init() and dispose() are kept as counts per position.   *)
(***************************************************************************)
EXTENDS Integers, Sequences, FiniteSets, Bags, TLC

\* ------------------------------------------------------------ bounds
MaxCalls == 4       \* calls of init(), calls of dispose() and accepted events, together
MaxClock == 2       \* readings of Date.now() are 0..MaxClock

\* ------------------------------------------------------------ values
\* An optional field that is still undefined (openai?, assistant?, openAiThread?).
None == 0
\* e.message.text is optional: Absent stands for undefined/null.
Absent == "<absent>"
Texts == {Absent, "", "Hello"}
\* An Event: e.message may be missing; a message has a text and an ai_generated flag.
NoMessage == [hasMessage |-> FALSE, text |-> Absent, ai_generated |-> FALSE]
Events == {NoMessage} \cup [hasMessage : {TRUE}, text : Texts, ai_generated : BOOLEAN]

\* The positions of a call of init() and of a call of dispose().
InitPcs == {"assistant", "thread", "config_error", "failed", "done"}
DisposePcs == {"disconnect", "failed", "done"}

VARIABLES
    now,               \* the last reading of the clock (Date.now())
    createdAt,         \* the clock when the session object was constructed
    openai,            \* this.openai: None or the client
    assistant,         \* this.assistant: None or the assistant id
    openAiThread,      \* this.openAiThread: None or the thread id
    lastInteractionTs, \* this.lastInteractionTs
    handlers,          \* this.handlers: sequence of streamers (indices of streamers)
    subscribed,        \* handleMessage is a 'message.new' listener of chatClient
    initCalls,         \* number of init() calls at each position
    disposeCalls,      \* number of dispose() calls at each position
    hist,              \* history: dispose() was called on an initialized session;
                       \* init() ran or was running after a dispose() call;
                       \* init() was called, with a key, after an init() succeeded;
                       \* the clock when the last acceptable event was handled
    last,              \* the event delivered last and what handleMessage did with it
    inv,               \* the invocations of handleMessage that passed its early returns
    assistants,        \* number of assistants the backend has created
    threads,           \* number of threads the backend has created
    appendLog,         \* threads.messages.create requests, in issue order
    sendLog,           \* channel.sendMessage requests (a bag)
    channelMsgs,       \* messages the channel has created
    indicatorLog,      \* channel.sendEvent requests (a bag)
    runLog,            \* threads.runs.stream calls, in order
    streamers          \* every OpenAIResponseHandler constructed, in order

vars == <<now, createdAt, openai, assistant, openAiThread, lastInteractionTs,
          handlers, subscribed, initCalls, disposeCalls, hist, last, inv,
          assistants, threads, appendLog, sendLog, channelMsgs,
          indicatorLog, runLog, streamers>>

sessionVars == <<openai, assistant, openAiThread, lastInteractionTs, handlers,
                 subscribed>>
callVars == <<initCalls, disposeCalls>>
eventVars == <<last, inv>>
backendVars == <<assistants, threads, appendLog, runLog>>
channelVars == <<sendLog, channelMsgs, indicatorLog>>
envVars == <<now, createdAt>>

One(x) == SetToBag({x})

\* ------------------------------------------------------------ construction
\* Field initialisers and the constructor.
Init ==
    /\ now = 0
    /\ createdAt = now
    /\ openai = None
    /\ assistant = None
    /\ openAiThread = None
    /\ lastInteractionTs = now
    /\ handlers = <<>>
    /\ subscribed = FALSE
    /\ initCalls = [p \in InitPcs |-> 0]
    /\ disposeCalls = [p \in DisposePcs |-> 0]
    /\ hist = [disposed |-> FALSE, reinit |-> FALSE, again |-> FALSE,
               acceptedAt |-> -1]  \* -1: never
    /\ last = [pc |-> "none", ai_generated |-> FALSE, echo |-> FALSE]
    /\ inv = <<>>
    /\ assistants = 0
    /\ threads = 0
    /\ appendLog = <<>>
    /\ sendLog = EmptyBag
    /\ channelMsgs = {}
    /\ indicatorLog = EmptyBag
    /\ runLog = <<>>
    /\ streamers = <<>>

\* ------------------------------------------------------------ environment
\* The clock is non-decreasing; only its readings matter, so time passes when
\* it is read: a reading is any value from the last reading on.
Readings == now..MaxClock

\* getLastInteraction
getLastInteraction == lastInteractionTs

\* ------------------------------------------------------------ init
InitStarted ==
    initCalls["assistant"] + initCalls["thread"] + initCalls["config_error"]
    + initCalls["failed"] + initCalls["done"]
InitInFlight == initCalls["assistant"] + initCalls["thread"] > 0
DisposeStarted ==
    disposeCalls["disconnect"] + disposeCalls["failed"] + disposeCalls["done"]

\* What the session has been asked to do so far.
Calls == InitStarted + DisposeStarted + Len(inv)

\* Faulty variant: a check of the client alone.
InitializedClientOnly == openai # None

\* The session has every field handleMessage needs.
Initialized == openai # None /\ openAiThread # None /\ assistant # None

\* Faulty variant: init() that constructs the client before it checks the key.
InitStartClientFirst(apiKeySet) ==
    /\ Calls < MaxCalls
    /\ openai' = 1
    /\ IF ~apiKeySet
       THEN initCalls' = [initCalls EXCEPT !["config_error"] = @ + 1]
       ELSE initCalls' = [initCalls EXCEPT !["assistant"] = @ + 1]
    /\ hist' = [hist EXCEPT !.reinit = @ \/ DisposeStarted > 0,
                            !.again = @ \/ (apiKeySet /\ initCalls["done"] > 0)]
    /\ UNCHANGED <<envVars, assistant, openAiThread, lastInteractionTs, handlers,
                   subscribed, disposeCalls, eventVars, backendVars, channelVars,
                   streamers>>

\* init(), up to its first await: the key check, the client, assistants.create issued.
\* apiKeySet: whether process.env.OPENAI_API_KEY is set when init() reads it.
InitStart(apiKeySet) ==
    /\ Calls < MaxCalls
    /\ IF ~apiKeySet
       THEN /\ initCalls' = [initCalls EXCEPT !["config_error"] = @ + 1]
            /\ UNCHANGED openai
       ELSE /\ initCalls' = [initCalls EXCEPT !["assistant"] = @ + 1]
            /\ openai' = 1
    /\ hist' = [hist EXCEPT !.reinit = @ \/ DisposeStarted > 0,
                            !.again = @ \/ (apiKeySet /\ initCalls["done"] > 0)]
    /\ UNCHANGED <<envVars, assistant, openAiThread, lastInteractionTs, handlers,
                   subscribed, disposeCalls, eventVars, backendVars, channelVars,
                   streamers>>

\* assistants.create settles; on success this.assistant is set and threads.create issued.
InitAssistantSettle(ok) ==
    /\ initCalls["assistant"] > 0
    /\ IF ok
       THEN /\ assistants' = assistants + 1
            /\ assistant' = assistants + 1
            /\ initCalls' = [initCalls EXCEPT !["assistant"] = @ - 1,
                                              !["thread"] = @ + 1]
       ELSE /\ initCalls' = [initCalls EXCEPT !["assistant"] = @ - 1,
                                              !["failed"] = @ + 1]
            /\ UNCHANGED <<assistants, assistant>>
    /\ UNCHANGED <<envVars, openai, openAiThread, lastInteractionTs, handlers,
                   subscribed, disposeCalls, hist, eventVars, threads, appendLog,
                   runLog, channelVars, streamers>>

\* threads.create settles; on success this.openAiThread is set and the listener added.
InitThreadSettle(ok) ==
    /\ initCalls["thread"] > 0
    /\ IF ok
       THEN /\ threads' = threads + 1
            /\ openAiThread' = threads + 1
            /\ subscribed' = TRUE
            /\ initCalls' = [initCalls EXCEPT !["thread"] = @ - 1, !["done"] = @ + 1]
       ELSE /\ initCalls' = [initCalls EXCEPT !["thread"] = @ - 1, !["failed"] = @ + 1]
            /\ UNCHANGED <<threads, openAiThread, subscribed>>
    /\ UNCHANGED <<envVars, openai, assistant, lastInteractionTs, handlers,
                   disposeCalls, hist, eventVars, assistants, appendLog, runLog,
                   channelVars, streamers>>

\* ------------------------------------------------------------ dispose
\* Faulty variant: a loop over the handlers that starts at the second one.
DisposeAllButFirst(hs, ss) ==
    [s \in DOMAIN ss |->
        [ss[s] EXCEPT !.disposed =
            @ + Cardinality({k \in DOMAIN hs : k > 1 /\ hs[k] = s})]]

\* handlers.forEach((handler) => handler.dispose()): the streamers after the loop.
DisposeAll(hs, ss) ==
    [s \in DOMAIN ss |->
        [ss[s] EXCEPT !.disposed = @ + Cardinality({k \in DOMAIN hs : hs[k] = s})]]

\* dispose(), up to its await: the listener is removed, disconnectUser issued.
DisposeStart ==
    /\ Calls < MaxCalls
    /\ subscribed' = FALSE
    /\ disposeCalls' = [disposeCalls EXCEPT !["disconnect"] = @ + 1]
    /\ hist' = [hist EXCEPT !.disposed = @ \/ Initialized,
                             !.reinit = @ \/ InitInFlight]
    /\ UNCHANGED <<envVars, openai, assistant, openAiThread, lastInteractionTs,
                   handlers, initCalls, eventVars, backendVars, channelVars,
                   streamers>>

\* Faulty variant: the streamers are disposed but the collection is not replaced.
DisposeSettleKeepsHandlers(ok) ==
    /\ disposeCalls["disconnect"] > 0
    /\ IF ok
       THEN /\ streamers' = DisposeAll(handlers, streamers)
            /\ disposeCalls' = [disposeCalls EXCEPT !["disconnect"] = @ - 1,
                                                    !["done"] = @ + 1]
       ELSE /\ disposeCalls' = [disposeCalls EXCEPT !["disconnect"] = @ - 1,
                                                    !["failed"] = @ + 1]
            /\ UNCHANGED streamers
    /\ UNCHANGED <<envVars, openai, assistant, openAiThread, lastInteractionTs,
                   handlers, subscribed, initCalls, hist, eventVars, backendVars,
                   channelVars>>

\* disconnectUser settles; on success every tracked streamer is disposed and the
\* collection replaced by an empty one.  On failure dispose() rejects there.
DisposeSettle(ok) ==
    /\ disposeCalls["disconnect"] > 0
    /\ IF ok
       THEN /\ streamers' = DisposeAll(handlers, streamers)
            /\ handlers' = <<>>
            /\ disposeCalls' = [disposeCalls EXCEPT !["disconnect"] = @ - 1,
                                                    !["done"] = @ + 1]
       ELSE /\ disposeCalls' = [disposeCalls EXCEPT !["disconnect"] = @ - 1,
                                                    !["failed"] = @ + 1]
            /\ UNCHANGED <<streamers, handlers>>
    /\ UNCHANGED <<envVars, openai, assistant, openAiThread, lastInteractionTs,
                   subscribed, initCalls, hist, eventVars, backendVars, channelVars>>

\* ------------------------------------------------------------ handleMessage
\* Faulty variant: the check without the ai_generated flag.
SkipMessageNoFlag(e) == ~e.hasMessage

\* if (!e.message || e.message.ai_generated)
SkipMessage(e) == ~e.hasMessage \/ e.ai_generated

\* Faulty variant: a check for undefined only, which lets the empty string through.
NoTextUndefinedOnly(e) == e.text = Absent

\* const message = e.message.text; if (!message)
NoText(e) == e.text = Absent \/ e.text = ""

\* The request of threads.messages.create made by invocation i.
UserTurn(i, e) ==
    [inv |-> i, thread |-> openAiThread, role |-> "user", content |-> e.text]

\* Faulty variant: a placeholder that is not flagged ai_generated.
PlaceholderUnflagged(i) == [inv |-> i, text |-> "", ai_generated |-> FALSE]

\* The request of channel.sendMessage made by invocation i.
Placeholder(i) == [inv |-> i, text |-> "", ai_generated |-> TRUE]

\* The request of channel.sendEvent made by invocation i about channelMessage m.
ThinkingIndicator(i, m) ==
    [inv |-> i, type |-> "ai_indicator.update", ai_state |-> "AI_STATE_THINKING",
     message_id |-> m]

\* The call of threads.runs.stream made by invocation i.
RunRequest(i) == [inv |-> i, thread |-> openAiThread, assistant |-> assistant]

\* Faulty variant: a streamer bound to the newest message of the channel instead of
\* the channelMessage of its own invocation.
NewHandlerNewestMessage(i, run) ==
    [inv |-> i, run |-> run,
     msg |-> CHOOSE id \in {m.id : m \in channelMsgs} :
                 \A m \in channelMsgs : m.id <= id,
     disposed |-> 0, finished |-> FALSE]

\* new OpenAIResponseHandler(..., run, ..., channelMessage) made by invocation i.
NewHandler(i, run) ==
    [inv |-> i, run |-> run, msg |-> inv[i].msg, disposed |-> 0, finished |-> FALSE]

\* Faulty variant: the timestamp is read but never stored in the field.
TouchForgotten == \E t \in Readings : now' = t /\ UNCHANGED lastInteractionTs

\* this.lastInteractionTs = Date.now()
Touch == \E t \in Readings : now' = t /\ lastInteractionTs' = t

\* Faulty variant: handleMessage that updates the timestamp before it filters the event.
HandleMessageTouchFirst(e, r) ==
    IF ~Initialized
    THEN /\ last' = [r EXCEPT !.pc = "uninit"]
         /\ UNCHANGED <<now, lastInteractionTs, appendLog, inv>>
    ELSE /\ Touch
         /\ IF SkipMessage(e)
            THEN /\ last' = [r EXCEPT !.pc = "skip"]
                 /\ UNCHANGED <<appendLog, inv>>
            ELSE IF NoText(e)
            THEN /\ last' = [r EXCEPT !.pc = "notext"]
                 /\ UNCHANGED <<appendLog, inv>>
            ELSE /\ last' = [r EXCEPT !.pc = "accepted"]
                 /\ appendLog' = Append(appendLog, UserTurn(Len(inv) + 1, e))
                 /\ inv' = Append(inv, [e |-> e, pc |-> "append", msg |-> None])

\* Faulty variant: handleMessage awaits something before the append request, so
\* the request is not issued in the step that accepts the event.
HandleMessageAwaitBeforeAppend(e, r) ==
    IF ~Initialized
    THEN /\ last' = [r EXCEPT !.pc = "uninit"]
         /\ UNCHANGED <<now, lastInteractionTs, appendLog, inv>>
    ELSE IF SkipMessage(e)
    THEN /\ last' = [r EXCEPT !.pc = "skip"]
         /\ UNCHANGED <<now, lastInteractionTs, appendLog, inv>>
    ELSE IF NoText(e)
    THEN /\ last' = [r EXCEPT !.pc = "notext"]
         /\ UNCHANGED <<now, lastInteractionTs, appendLog, inv>>
    ELSE /\ last' = [r EXCEPT !.pc = "accepted"]
         /\ Touch
         /\ UNCHANGED appendLog
         /\ inv' = Append(inv, [e |-> e, pc |-> "append", msg |-> None])

\* handleMessage(e) up to its first await; r is what the delivery is remembered
\* by.  The three early returns, then the timestamp and the append request.
HandleMessage(e, r) ==
    IF ~Initialized
    THEN /\ last' = [r EXCEPT !.pc = "uninit"]
         /\ UNCHANGED <<now, lastInteractionTs, appendLog, inv>>
    ELSE IF SkipMessage(e)
    THEN /\ last' = [r EXCEPT !.pc = "skip"]
         /\ UNCHANGED <<now, lastInteractionTs, appendLog, inv>>
    ELSE IF NoText(e)
    THEN /\ last' = [r EXCEPT !.pc = "notext"]
         /\ UNCHANGED <<now, lastInteractionTs, appendLog, inv>>
    ELSE /\ last' = [r EXCEPT !.pc = "accepted"]
         /\ Touch
         /\ appendLog' = Append(appendLog, UserTurn(Len(inv) + 1, e))
         /\ inv' = Append(inv, [e |-> e, pc |-> "append", msg |-> None])

\* What a delivery is remembered by: what was done with it, whether the event
\* was flagged ai_generated, whether it was a message the session sent itself.
Delivery(e, echo) == [pc |-> "none", ai_generated |-> e.ai_generated, echo |-> echo]

\* An event with a human author and a text: the events the session accepts.
HumanText(e) == e.hasMessage /\ ~e.ai_generated /\ e.text \notin {Absent, ""}

\* The chat client emits 'message.new' with event e: handleMessage runs if it is
\* still a listener, otherwise nothing of the session runs.
Dispatch(e, echo) ==
    /\ Calls < MaxCalls
    /\ IF subscribed
       THEN /\ HandleMessage(e, Delivery(e, echo))
            /\ hist' = [hist EXCEPT !.acceptedAt =
                            IF Initialized /\ HumanText(e) THEN now' ELSE @]
       ELSE /\ last' = [Delivery(e, echo) EXCEPT !.pc = "dropped"]
            /\ UNCHANGED <<now, lastInteractionTs, appendLog, inv, hist>>

\* A message written by somebody else arrives on the channel.
Emit(e) ==
    /\ Dispatch(e, FALSE)
    /\ UNCHANGED <<createdAt, openai, assistant, openAiThread, handlers, subscribed,
                   callVars, assistants, threads, runLog, channelVars, streamers>>

\* The channel delivers a message the session sent itself back as 'message.new'.
EmitEcho(m) ==
    /\ m \in channelMsgs
    /\ Dispatch([hasMessage |-> TRUE, text |-> m.text,
                 ai_generated |-> m.ai_generated], TRUE)
    /\ UNCHANGED <<createdAt, openai, assistant, openAiThread, handlers, subscribed,
                   callVars, assistants, threads, runLog, channelVars, streamers>>

\* handleMessage is reached with e before any init() has completed: the startup
\* race its first check is there for.
Call(e) ==
    /\ initCalls["done"] = 0
    /\ HandleMessage(e, Delivery(e, FALSE))
    /\ hist' = [hist EXCEPT !.acceptedAt = IF Initialized /\ HumanText(e) THEN now' ELSE @]
    /\ UNCHANGED <<createdAt, openai, assistant, openAiThread, handlers, subscribed,
                   callVars, assistants, threads, runLog, channelVars, streamers>>

\* Faulty variant: the appends are serialized, an append resolves only after
\* the appends of all earlier events.
AppendSettleInOrder(i, ok) ==
    /\ inv[i].pc = "append"
    /\ \A j \in 1..(i - 1) : inv[j].pc # "append"
    /\ IF ok
       THEN /\ sendLog' = sendLog (+) One(Placeholder(i))
            /\ inv' = [inv EXCEPT ![i].pc = "send"]
       ELSE /\ inv' = [inv EXCEPT ![i].pc = "failed"]
            /\ UNCHANGED sendLog
    /\ UNCHANGED <<envVars, sessionVars, callVars, hist, last, backendVars,
                   channelMsgs, indicatorLog, streamers>>

\* Faulty variant: a failed append takes the listener off, so the session stops
\* handling events.
AppendSettleFailStop(i, ok) ==
    /\ inv[i].pc = "append"
    /\ IF ok
       THEN /\ sendLog' = sendLog (+) One(Placeholder(i))
            /\ inv' = [inv EXCEPT ![i].pc = "send"]
            /\ UNCHANGED subscribed
       ELSE /\ inv' = [inv EXCEPT ![i].pc = "failed"]
            /\ subscribed' = FALSE
            /\ UNCHANGED sendLog
    /\ UNCHANGED <<envVars, openai, assistant, openAiThread, lastInteractionTs,
                   handlers, callVars, hist, last, backendVars,
                   channelMsgs, indicatorLog, streamers>>

\* threads.messages.create settles; on success channel.sendMessage is issued.
AppendSettle(i, ok) ==
    /\ inv[i].pc = "append"
    /\ IF ok
       THEN /\ sendLog' = sendLog (+) One(Placeholder(i))
            /\ inv' = [inv EXCEPT ![i].pc = "send"]
       ELSE /\ inv' = [inv EXCEPT ![i].pc = "failed"]
            /\ UNCHANGED sendLog
    /\ UNCHANGED <<envVars, sessionVars, callVars, hist, last, backendVars,
                   channelMsgs, indicatorLog, streamers>>

\* The message the channel creates for request q of invocation q.inv: its id is
\* new (one per request).
Created(q) ==
    [id |-> q.inv, req |-> q.inv, text |-> q.text, ai_generated |-> q.ai_generated]

\* Faulty variant: channel.sendEvent is not awaited, so the run is started and
\* the streamer constructed in the step that issues the indicator.
SendSettleIndicatorNotAwaited(i, ok) ==
    /\ inv[i].pc = "send"
    /\ IF ok
       THEN LET q == CHOOSE q \in BagToSet(sendLog) : q.inv = i
                m == Created(q)
            IN /\ channelMsgs' = channelMsgs \cup {m}
               /\ indicatorLog' = indicatorLog (+) One(ThinkingIndicator(i, m.id))
               /\ runLog' = Append(runLog, RunRequest(i))
               /\ streamers' = Append(streamers,
                      [NewHandler(i, Len(runLog) + 1) EXCEPT !.msg = m.id])
               /\ handlers' = Append(handlers, Len(streamers) + 1)
               /\ inv' = [inv EXCEPT ![i].pc = "done", ![i].msg = m.id]
       ELSE /\ inv' = [inv EXCEPT ![i].pc = "failed"]
            /\ UNCHANGED <<channelMsgs, indicatorLog, runLog, streamers, handlers>>
    /\ UNCHANGED <<envVars, openai, assistant, openAiThread, lastInteractionTs,
                   subscribed, callVars, hist, last, assistants, threads,
                   appendLog, sendLog>>

\* channel.sendMessage settles; on success the channel has created the message,
\* channelMessage is bound to it and channel.sendEvent is issued.
SendSettle(i, ok) ==
    /\ inv[i].pc = "send"
    /\ IF ok
       THEN LET q == CHOOSE q \in BagToSet(sendLog) : q.inv = i
                m == Created(q)
            IN /\ channelMsgs' = channelMsgs \cup {m}
               /\ indicatorLog' = indicatorLog (+) One(ThinkingIndicator(i, m.id))
               /\ inv' = [inv EXCEPT ![i].pc = "indicator", ![i].msg = m.id]
       ELSE /\ inv' = [inv EXCEPT ![i].pc = "failed"]
            /\ UNCHANGED <<channelMsgs, indicatorLog>>
    /\ UNCHANGED <<envVars, sessionVars, callVars, hist, last, backendVars,
                   sendLog, streamers>>

\* Faulty variant: handler.run() is awaited, so the invocation stays suspended
\* on its streamer and has not pushed it.
IndicatorSettleAwaitRun(i, ok, runOk) ==
    /\ inv[i].pc = "indicator"
    /\ IF ok /\ runOk
       THEN /\ runLog' = Append(runLog, RunRequest(i))
            /\ streamers' = Append(streamers, NewHandler(i, Len(runLog) + 1))
            /\ inv' = [inv EXCEPT ![i].pc = "running"]
            /\ UNCHANGED handlers
       ELSE /\ inv' = [inv EXCEPT ![i].pc = "failed"]
            /\ UNCHANGED <<runLog, streamers, handlers>>
    /\ UNCHANGED <<envVars, openai, assistant, openAiThread, lastInteractionTs,
                   subscribed, callVars, hist, last, assistants, threads,
                   appendLog, channelVars>>

\* channel.sendEvent settles; on success the run is started, the streamer is
\* constructed, run() is called without awaiting it, and the streamer is pushed.
\* runOk: threads.runs.stream returned rather than threw.
IndicatorSettle(i, ok, runOk) ==
    /\ inv[i].pc = "indicator"
    /\ IF ok /\ runOk
       THEN /\ runLog' = Append(runLog, RunRequest(i))
            /\ streamers' = Append(streamers, NewHandler(i, Len(runLog) + 1))
            /\ handlers' = Append(handlers, Len(streamers) + 1)
            /\ inv' = [inv EXCEPT ![i].pc = "done"]
       ELSE /\ inv' = [inv EXCEPT ![i].pc = "failed"]
            /\ UNCHANGED <<runLog, streamers, handlers>>
    /\ UNCHANGED <<envVars, openai, assistant, openAiThread, lastInteractionTs,
                   subscribed, callVars, hist, last, assistants, threads,
                   appendLog, channelVars>>

\* Faulty variant: a streamer that ends takes itself out of this.handlers.
StreamerFinishDeregisters(s) ==
    /\ ~streamers[s].finished
    /\ streamers[s].disposed = 0
    /\ streamers' = [streamers EXCEPT ![s].finished = TRUE]
    /\ handlers' = SelectSeq(handlers, LAMBDA h : h # s)
    /\ UNCHANGED <<envVars, openai, assistant, openAiThread, lastInteractionTs,
                   subscribed, callVars, hist, eventVars, backendVars,
                   channelVars>>

\* A streamer's run() reaches the end of its stream on its own.
StreamerFinish(s) ==
    /\ ~streamers[s].finished
    /\ streamers[s].disposed = 0
    /\ streamers' = [streamers EXCEPT ![s].finished = TRUE]
    /\ UNCHANGED <<envVars, sessionVars, callVars, hist, eventVars, backendVars,
                   channelVars>>

\* Faulty variant: a getter that throws until the session is initialized.
ReadLastInteractionGuarded == Initialized /\ UNCHANGED vars

\* A caller (the idle reaper) invokes getLastInteraction(): the call returns
\* the value of getLastInteraction to the caller; it has no guard, no await
\* and no assignment.
ReadLastInteraction == UNCHANGED vars

\* ------------------------------------------------------------ specification
Next ==
    \/ ReadLastInteraction
    \/ \E apiKeySet \in BOOLEAN : InitStart(apiKeySet)
    \/ \E ok \in BOOLEAN : InitAssistantSettle(ok)
    \/ \E ok \in BOOLEAN : InitThreadSettle(ok)
    \/ DisposeStart
    \/ \E ok \in BOOLEAN : DisposeSettle(ok)
    \/ \E e \in Events : Emit(e)
    \/ \E m \in channelMsgs : EmitEcho(m)
    \/ \E e \in Events : Call(e)
    \/ \E i \in DOMAIN inv, ok \in BOOLEAN : AppendSettle(i, ok)
    \/ \E i \in DOMAIN inv, ok \in BOOLEAN : SendSettle(i, ok)
    \/ \E i \in DOMAIN inv, ok, runOk \in BOOLEAN : IndicatorSettle(i, ok, runOk)
    \/ \E s \in DOMAIN streamers : StreamerFinish(s)

Spec == Init /\ [][Next]_vars

\* ------------------------------------------------------------ properties
\* The events the spec calls rejected because of their text: no message, or a
\* text that is absent or empty.
EmptyText(e) == ~e.hasMessage \/ e.text = Absent \/ e.text = ""

\* The event the transport makes of channel message m.
EchoOf(m) == [hasMessage |-> TRUE, text |-> m.text, ai_generated |-> m.ai_generated]

\* Everything a handler invocation can change or cause.
effects == <<now, sessionVars, inv, backendVars, channelVars, streamers>>

\* The send and indicator requests of invocation i.
SendsOf(i) == {q \in BagToSet(sendLog) : q.inv = i}
IndicatorsOf(i) == {q \in BagToSet(indicatorLog) : q.inv = i}

\* C1: once dispose() has been called on an initialized session, no thread
\* append is issued and no streamer is created any more.  (Stated for the
\* sessions where init() is not called again or still running, and from the
\* moment every call of dispose() has completed.)
C1_NothingAfterDispose ==
    [][(/\ hist.disposed /\ ~hist'.reinit
        /\ disposeCalls["disconnect"] = 0 /\ disposeCalls["failed"] = 0)
        => (appendLog' = appendLog /\ Len(streamers') = Len(streamers))]_vars

\* C2: when a call of dispose() completes, every streamer the session has
\* constructed so far has had dispose() called on it exactly once.
C2_DisposeEachOnce ==
    [][disposeCalls'["done"] > disposeCalls["done"]
        => \A s \in DOMAIN streamers' : streamers'[s].disposed = 1]_vars

C2_Witness ==
    /\ disposeCalls["done"] >= 1
    /\ Len(streamers) >= 2
    /\ \A s \in DOMAIN streamers : streamers[s].disposed = 1

\* C3: an event flagged ai_generated changes nothing, whatever the state of the
\* session and however it reaches the handler (also the session's own
\* placeholder coming back); and the runs started never outnumber the handled
\* events that have a human author and a text.
C3_AiGeneratedNoOp ==
    /\ [][\A e \in Events :
            (e.ai_generated /\ (Emit(e) \/ Call(e))) => UNCHANGED effects]_vars
    /\ [][\A m \in channelMsgs :
            (m.ai_generated /\ EmitEcho(m)) => UNCHANGED effects]_vars
    /\ [](Len(runLog) <= Cardinality({i \in DOMAIN inv : HumanText(inv[i].e)}))

C3_Witness ==
    /\ subscribed
    /\ last = [pc |-> "skip", ai_generated |-> TRUE, echo |-> TRUE]
    /\ Len(runLog) = 1

\* C4: an event without a message or with an absent or empty text causes no
\* thread append, no send, no indicator, no run and no streamer, and leaves the
\* tracked collection as it is.
C4_EmptyTextNoOp ==
    [][\A e \in Events :
         (EmptyText(e) /\ (Emit(e) \/ Call(e)))
            => UNCHANGED <<appendLog, sendLog, indicatorLog, runLog, streamers,
                           handlers, channelMsgs, inv>>]_vars

C4_Witness ==
    /\ subscribed
    /\ handlers # <<>>
    /\ last = [pc |-> "notext", ai_generated |-> FALSE, echo |-> FALSE]

\* C5: an accepted event whose calls all succeeded has caused exactly one
\* append (its text, role user), one send (empty text, ai_generated), one
\* thinking indicator about the message created for that send, one run and one
\* streamer; and the step that completes it pushes that streamer.
C5_OneOfEach ==
    /\ [](\A i \in DOMAIN inv : inv[i].pc = "done" =>
            /\ \E k \in DOMAIN appendLog :
                 /\ appendLog[k].inv = i
                 /\ appendLog[k].role = "user"
                 /\ appendLog[k].content = inv[i].e.text
                 /\ \A k2 \in DOMAIN appendLog : appendLog[k2].inv = i => k2 = k
            /\ \E q \in SendsOf(i) :
                 /\ SendsOf(i) = {q}
                 /\ CopiesIn(q, sendLog) = 1
                 /\ q.text = ""
                 /\ q.ai_generated
            /\ \E q \in IndicatorsOf(i) :
                 /\ IndicatorsOf(i) = {q}
                 /\ CopiesIn(q, indicatorLog) = 1
                 /\ q.ai_state = "AI_STATE_THINKING"
                 /\ q.message_id = inv[i].msg
                 /\ \E m \in channelMsgs : m.id = q.message_id /\ m.req = i
            /\ Cardinality({k \in DOMAIN runLog : runLog[k].inv = i}) = 1
            /\ Cardinality({s \in DOMAIN streamers : streamers[s].inv = i}) = 1)
    /\ [][\A i \in DOMAIN inv : (inv[i].pc # "done" /\ inv'[i].pc = "done") =>
            /\ Len(handlers') = Len(handlers) + 1
            /\ streamers'[handlers'[Len(handlers')]].inv = i]_vars

C5_Witness ==
    \E i \in DOMAIN inv :
        /\ inv[i].pc = "done"
        /\ inv[i].e.text = "Hello"
        /\ Len(handlers) = 1

\* C6: streamers are independent: each is bound to the message created for the
\* send of its own invocation and to its own run, and no two streamers share an
\* invocation, a run or a placeholder message; two accepted events that both
\* ran to completion have two streamers.
C6_IndependentStreamers ==
    /\ \A s \in DOMAIN streamers :
          /\ streamers[s].msg = inv[streamers[s].inv].msg
          /\ \E m \in channelMsgs :
                m.id = streamers[s].msg /\ m.req = streamers[s].inv
          /\ runLog[streamers[s].run].inv = streamers[s].inv
    /\ \A s, t \in DOMAIN streamers : s # t =>
          /\ streamers[s].msg # streamers[t].msg
          /\ streamers[s].run # streamers[t].run
          /\ streamers[s].inv # streamers[t].inv
    /\ Cardinality({i \in DOMAIN inv : inv[i].pc = "done"}) = Len(streamers)

\* Two streamers are tracked, and the one created first belongs to the event
\* delivered second: the two invocations overlapped.
C6_Witness ==
    /\ Len(handlers) = 2
    /\ streamers[handlers[1]].inv = 2
    /\ streamers[handlers[2]].inv = 1
    /\ streamers[handlers[1]].msg # streamers[handlers[2]].msg

\* C7 as claimed: in every state getLastInteraction() is the time of the most
\* recently accepted message.
C7_AlwaysLastAccepted == getLastInteraction = hist.acceptedAt

\* C7 as amended: getLastInteraction() is the time of the most recently
\* accepted message once there is one and the time of construction before
\* that; a send on the channel never changes it.
C7_LastAcceptedOrCreation ==
    /\ [](getLastInteraction =
            IF hist.acceptedAt = -1 THEN createdAt ELSE hist.acceptedAt)
    /\ [][(sendLog' # sendLog \/ channelMsgs' # channelMsgs)
            => lastInteractionTs' = lastInteractionTs]_vars

C7_Witness ==
    /\ hist.acceptedAt > createdAt
    /\ getLastInteraction = hist.acceptedAt
    /\ channelMsgs # {}

\* C8: getLastInteraction() never decreases, and an event that is rejected
\* (session not initialized, no message, ai_generated, no text) leaves it as
\* it is.
C8_MonotoneAndUntouched ==
    /\ [][lastInteractionTs' >= lastInteractionTs]_vars
    /\ [][\A e \in Events :
            ((Emit(e) \/ Call(e))
             /\ (\/ openai = None \/ assistant = None \/ openAiThread = None
                 \/ e.ai_generated \/ EmptyText(e)))
            => lastInteractionTs' = lastInteractionTs]_vars
    /\ [][\A m \in channelMsgs :
            (EmitEcho(m) /\ (m.ai_generated \/ EmptyText(EchoOf(m))))
            => lastInteractionTs' = lastInteractionTs]_vars

\* An event was accepted after the construction, and the delivery after it
\* was rejected.
C8_Witness ==
    /\ last.pc \in {"skip", "notext"}
    /\ hist.acceptedAt > createdAt
    /\ getLastInteraction = hist.acceptedAt

\* C9: init() without the API key fails and changes nothing; as long as no
\* init() found a key there is no client, assistant, thread or listener, and
\* nothing fed to the handler has any effect.
C9_NoKeyNoChange ==
    /\ [][initCalls'["config_error"] > initCalls["config_error"]
            => UNCHANGED <<effects, last>>]_vars
    /\ [](InitStarted = initCalls["config_error"] =>
            /\ openai = None /\ assistant = None /\ openAiThread = None
            /\ ~subscribed
            /\ assistants = 0 /\ threads = 0
            /\ inv = <<>> /\ appendLog = <<>> /\ runLog = <<>>
            /\ sendLog = EmptyBag /\ indicatorLog = EmptyBag
            /\ streamers = <<>> /\ handlers = <<>>
            /\ lastInteractionTs = createdAt
            /\ last.pc \in {"none", "dropped", "uninit"})

C9_Witness ==
    /\ initCalls["config_error"] >= 1
    /\ InitStarted = initCalls["config_error"]
    /\ last.pc = "uninit"

\* C10: once an init() has succeeded, nothing changes the assistant or the
\* thread of the session any more, a later call of init() included.  (Stated
\* for the sessions where no two calls of init() overlap.)
C10_IdentifiersImmutable ==
    [][(initCalls["done"] >= 1 /\ initCalls["assistant"] + initCalls["thread"] <= 1
        /\ (InitInFlight => hist.again))
        => (assistant' = assistant /\ openAiThread' = openAiThread)]_vars

\* The session is fully initialized: client, assistant and thread are there.
Provisioned == openai # None /\ assistant # None /\ openAiThread # None

\* C11: while the session is not fully initialized there is no listener and
\* nothing has been appended, sent, indicated, run or streamed, and every
\* event that reaches the handler then is rejected without any effect.
C11_RejectsUntilInitialized ==
    /\ [](~Provisioned =>
            /\ ~subscribed
            /\ inv = <<>> /\ appendLog = <<>> /\ runLog = <<>>
            /\ sendLog = EmptyBag /\ indicatorLog = EmptyBag /\ channelMsgs = {}
            /\ streamers = <<>> /\ handlers = <<>>)
    /\ [][\A e \in Events :
            (~Provisioned /\ (Emit(e) \/ Call(e))) => UNCHANGED effects]_vars

\* An event with a human author and a text reached the handler while init()
\* was suspended on threads.create, and was rejected.
C11_Witness ==
    /\ initCalls["thread"] = 1
    /\ openai # None /\ assistant # None /\ openAiThread = None
    /\ last = [pc |-> "uninit", ai_generated |-> FALSE, echo |-> FALSE]

\* C12: the last-interaction getter can be invoked in every state, also while
\* calls of init(), dispose() or handleMessage are suspended; it returns a
\* time between the creation of the session and the current time, and the
\* invocation changes nothing.
C12_GetterSafe ==
    /\ [](/\ ENABLED ReadLastInteraction
          /\ getLastInteraction \in createdAt..now)
    /\ [][ReadLastInteraction =>
            UNCHANGED <<sessionVars, callVars, eventVars, backendVars,
                        channelVars, streamers, envVars>>]_vars

\* A handler invocation, a call of init() and a call of dispose() are all
\* suspended, and the getter can be invoked.
C12_Witness ==
    /\ InitInFlight
    /\ disposeCalls["disconnect"] > 0
    /\ \E i \in DOMAIN inv : inv[i].pc \in {"append", "send", "indicator"}
    /\ ENABLED ReadLastInteraction

\* Invocation i stops at a rejected request in this step.
Fails(i) == inv[i].pc # "failed" /\ inv'[i].pc = "failed"

\* C13: a request that fails inside one handler invocation ends that invocation
\* only: the step adds no streamer and leaves the listener, the identifiers and
\* the tracked streamers as they are, a failed invocation never has a streamer,
\* and with failed invocations around an event that has a human author and a
\* text is still accepted and every pending request of another invocation can
\* still resolve.
C13_FailureIsLocal ==
    /\ [][\A i \in DOMAIN inv : Fails(i) =>
            /\ UNCHANGED <<openai, assistant, openAiThread, subscribed,
                           handlers, streamers, runLog>>
            /\ \A j \in DOMAIN inv \ {i} : inv'[j] = inv[j]]_vars
    /\ [](\A i \in DOMAIN inv : inv[i].pc = "failed" =>
            \A s \in DOMAIN streamers : streamers[s].inv # i)
    /\ [][\A e \in Events :
            (/\ \E i \in DOMAIN inv : inv[i].pc = "failed"
             /\ subscribed /\ HumanText(e) /\ Emit(e))
            => /\ Len(inv') = Len(inv) + 1
               /\ inv'[Len(inv')].pc = "append"
               /\ Len(appendLog') = Len(appendLog) + 1]_vars
    /\ []((\E i \in DOMAIN inv : inv[i].pc = "failed") =>
            \A j \in DOMAIN inv :
                /\ inv[j].pc = "append" => ENABLED AppendSettle(j, TRUE)
                /\ inv[j].pc = "send" => ENABLED SendSettle(j, TRUE)
                /\ inv[j].pc = "indicator" => ENABLED IndicatorSettle(j, TRUE, TRUE))

\* The first accepted event failed, the listener is still there, and the event
\* accepted after it went through every step and has its streamer tracked.
C13_Witness ==
    /\ Len(inv) = 2
    /\ inv[1].pc = "failed" /\ inv[2].pc = "done"
    /\ subscribed
    /\ Len(handlers) = 1 /\ streamers[handlers[1]].inv = 2

\* What invocation i has done so far: its append request, the message the
\* channel created for its send request, its runs and its streamers.
AppendsOf(i) == {k \in DOMAIN appendLog : appendLog[k].inv = i}
MessagesOf(i) == {m \in channelMsgs : m.req = i}
RunsOf(i) == {k \in DOMAIN runLog : runLog[k].inv = i}
StreamersOf(i) == {s \in DOMAIN streamers : streamers[s].inv = i}

\* C14: the steps of one accepted event happen in a fixed order: timestamp and
\* append request, then (append resolved) the send request, then (send
\* resolved) the indicator, then (indicator resolved) the run, the streamer and
\* its tracking.  Each step is taken by an invocation that waits for the step
\* before, so no run exists for an event whose append has not resolved, and
\* every tracked streamer is bound to a placeholder message that exists.
C14_FixedStepOrder ==
    /\ [](\A i \in DOMAIN inv :
            /\ AppendsOf(i) # {}
            /\ hist.acceptedAt >= 0 /\ lastInteractionTs >= createdAt
            /\ inv[i].pc = "append" => SendsOf(i) = {}
            /\ inv[i].pc = "send" => SendsOf(i) # {} /\ MessagesOf(i) = {}
            /\ inv[i].pc = "indicator" =>
                    MessagesOf(i) # {} /\ IndicatorsOf(i) # {} /\ RunsOf(i) = {}
            /\ MessagesOf(i) # {} => SendsOf(i) # {}
            /\ IndicatorsOf(i) # {} <=> MessagesOf(i) # {}
            /\ RunsOf(i) # {} => IndicatorsOf(i) # {} /\ inv[i].pc = "done"
            /\ StreamersOf(i) # {} <=> RunsOf(i) # {})
    /\ [][\A i \in DOMAIN inv :
            /\ (SendsOf(i) = {} /\ SendsOf(i)' # {}) => inv[i].pc = "append"
            /\ (IndicatorsOf(i) = {} /\ IndicatorsOf(i)' # {}) => inv[i].pc = "send"
            /\ (RunsOf(i) = {} /\ RunsOf(i)' # {}) => inv[i].pc = "indicator"]_vars
    /\ [](\A k \in DOMAIN handlers :
            \E m \in channelMsgs :
                /\ m.id = streamers[handlers[k]].msg
                /\ m.req = streamers[handlers[k]].inv
                /\ m.ai_generated)

\* One event went through all the steps and its streamer is tracked, while a
\* second one is still waiting for its append.
C14_Witness ==
    /\ Len(inv) = 2
    /\ inv[1].pc = "done" /\ inv[2].pc = "append"
    /\ Len(handlers) = 1
    /\ RunsOf(1) # {} /\ RunsOf(2) = {}

\* C15: the append requests reach the thread in the order in which the accepted
\* events were delivered: the k-th request is the one of the k-th accepted
\* event and carries its text, a request is issued in the very step that
\* accepts its event, and in no other step.
C15_AppendsInDeliveryOrder ==
    /\ [](/\ Len(appendLog) = Len(inv)
          /\ \A k \in DOMAIN appendLog :
                /\ appendLog[k].inv = k
                /\ appendLog[k].content = inv[k].e.text
                /\ appendLog[k].thread # None)
    /\ [][/\ Len(inv') > Len(inv) =>
                /\ Len(inv') = Len(inv) + 1
                /\ Len(appendLog') = Len(appendLog) + 1
                /\ appendLog'[Len(appendLog')].inv = Len(inv')
          /\ \A k \in DOMAIN appendLog :
                k \in DOMAIN appendLog' /\ appendLog'[k] = appendLog[k]]_vars

\* Two events were delivered back to back: both append requests are issued, in
\* the order of delivery, and neither has resolved.
C15_Witness ==
    /\ Len(inv) = 2 /\ Len(appendLog) = 2
    /\ inv[1].pc = "append" /\ inv[2].pc = "append"
    /\ appendLog[1].inv = 1 /\ appendLog[2].inv = 2

\* The invocations whose append request has not resolved yet.
AppendsInFlight == {i \in DOMAIN inv : inv[i].pc = "append"}

\* C16: the appends of different events are not serialized: an event with a
\* human author and a text that is delivered while appends are in flight gets
\* its own append issued at once, every append in flight can resolve whatever
\* the state of the appends issued before it, and the invocation then goes on
\* to its run without waiting for the invocations of earlier events.
C16_AppendsNotSerialized ==
    /\ [][\A e \in Events :
            (AppendsInFlight # {} /\ subscribed /\ HumanText(e) /\ Emit(e))
            => /\ AppendsInFlight' = AppendsInFlight \cup {Len(inv) + 1}
               /\ Len(appendLog') = Len(appendLog) + 1]_vars
    /\ [](\A i \in AppendsInFlight :
            /\ ENABLED AppendSettle(i, TRUE)
            /\ ENABLED AppendSettle(i, FALSE))
    /\ [](\A i \in DOMAIN inv : AppendsInFlight # {} =>
            /\ inv[i].pc = "send" => ENABLED SendSettle(i, TRUE)
            /\ inv[i].pc = "indicator" => ENABLED IndicatorSettle(i, TRUE, TRUE))

\* The append of the second event resolved and its run was started while the
\* append of the first event, issued earlier, is still in flight.
C16_Witness ==
    /\ Len(inv) = 2
    /\ AppendsInFlight = {1}
    /\ inv[2].pc = "done"
    /\ Len(runLog) = 1 /\ runLog[1].inv = 2
    /\ appendLog[1].inv = 1 /\ appendLog[2].inv = 2

\* The tracked streamers that are still streaming.
Streaming ==
    {k \in DOMAIN handlers :
        ~streamers[handlers[k]].finished /\ streamers[handlers[k]].disposed = 0}

\* C17: the session does not wait for a streamer: the step that constructs the
\* streamer of an invocation also tracks it and ends the invocation, with the
\* streamer still streaming; and while streamers are streaming, an event with a
\* human author and a text is accepted and every pending request of an
\* invocation can resolve.
C17_StreamersNotAwaited ==
    /\ [][\A i \in DOMAIN inv :
            (StreamersOf(i) = {} /\ StreamersOf(i)' # {})
            => /\ inv'[i].pc = "done"
               /\ Len(handlers') = Len(handlers) + 1
               /\ handlers'[Len(handlers')] \in StreamersOf(i)'
               /\ Len(handlers') \in Streaming']_vars
    /\ [][\A e \in Events :
            (Streaming # {} /\ subscribed /\ HumanText(e) /\ Emit(e))
            => /\ Len(inv') = Len(inv) + 1
               /\ inv'[Len(inv')].pc = "append"]_vars
    /\ [](Streaming # {} =>
            \A i \in DOMAIN inv :
                /\ inv[i].pc = "append" => ENABLED AppendSettle(i, TRUE)
                /\ inv[i].pc = "send" => ENABLED SendSettle(i, TRUE)
                /\ inv[i].pc = "indicator" => ENABLED IndicatorSettle(i, TRUE, TRUE))

\* Two tracked streamers are streaming at the same time.
C17_Witness ==
    /\ Len(handlers) = 2
    /\ Streaming = {1, 2}
    /\ handlers[1] # handlers[2]

\* The invocations that ran to completion.
Completed == {i \in DOMAIN inv : inv[i].pc = "done"}

\* C18: a streamer that finishes on its own stays in the tracked collection:
\* the step in which a streamer finishes leaves the collection as it is, the
\* collection only grows, at its end, in every step in which no call of
\* dispose() completes, and until a call of dispose() has completed its size
\* is the number of accepted events whose handling ran to completion.
C18_FinishedStayTracked ==
    /\ [][(\E s \in DOMAIN streamers :
                ~streamers[s].finished /\ streamers'[s].finished)
            => handlers' = handlers]_vars
    /\ [][disposeCalls'["done"] = disposeCalls["done"] =>
            /\ Len(handlers') >= Len(handlers)
            /\ \A k \in DOMAIN handlers : handlers'[k] = handlers[k]]_vars
    /\ [](disposeCalls["done"] = 0 =>
            /\ Len(handlers) = Cardinality(Completed)
            /\ \A i \in Completed : \E k \in DOMAIN handlers :
                    streamers[handlers[k]].inv = i)

\* No call of dispose() has completed, both tracked streamers have finished
\* on their own, and both are still tracked.
C18_Witness ==
    /\ disposeCalls["done"] = 0
    /\ Len(handlers) = 2
    /\ \A k \in DOMAIN handlers :
            streamers[handlers[k]].finished /\ streamers[handlers[k]].disposed = 0

\* Every call of dispose() made so far has completed, at least one was made on
\* the initialized session, init() was not called again, and no handler
\* invocation is suspended.
Quiescent ==
    /\ disposeCalls["done"] >= 1
    /\ disposeCalls["disconnect"] = 0 /\ disposeCalls["failed"] = 0
    /\ hist.disposed /\ ~hist.reinit /\ ~InitInFlight
    /\ \A i \in DOMAIN inv : inv[i].pc \in {"done", "failed"}

\* C19: once dispose() has completed and every handler invocation that was in
\* flight has finished, the tracked collection is empty and every streamer
\* ever constructed has been disposed.
C19_AllDisposedInTheEnd ==
    Quiescent =>
        /\ handlers = <<>>
        /\ \A s \in DOMAIN streamers : streamers[s].disposed >= 1

\* C20: however many calls of dispose() are made, one after the other or
\* overlapping, no streamer ever has dispose() invoked on it more than once,
\* a streamer that was disposed is no longer tracked, and each call of
\* dispose() that completes, the last one included, leaves the tracked
\* collection empty.
C20_DisposeTwiceIsSafe ==
    /\ [](\A s \in DOMAIN streamers :
            /\ streamers[s].disposed <= 1
            /\ streamers[s].disposed = 1 =>
                    \A k \in DOMAIN handlers : handlers[k] # s)
    /\ [][disposeCalls'["done"] > disposeCalls["done"] =>
            /\ handlers' = <<>>
            /\ \A s \in DOMAIN streamers :
                    streamers'[s].disposed \in
                        {streamers[s].disposed, streamers[s].disposed + 1}]_vars

\* Two calls of dispose() completed; the streamer that was tracked has been
\* disposed once and nothing is tracked.
C20_Witness ==
    /\ disposeCalls["done"] = 2
    /\ handlers = <<>>
    /\ streamers # <<>>
    /\ \A s \in DOMAIN streamers : streamers[s].disposed = 1
====
